---------------------------- MODULE Spec2Model ----------------------------
(***************************************************************************)
(* RadKit: the session execution engine (core/engine.py) and the plan      *)
(* execution engine (core/plan_engine.py).                                 *)
(*                                                                         *)
(* run_session is a Python generator: it is modelled as a suspended        *)
(* coroutine (a record holding the yield it is suspended at) that the      *)
(* caller resumes; one resume runs the code up to the next yield, the      *)
(* return or the raise.  run_plan is a generator as well; its consumer     *)
(* resumes it with Pull.  In parallel and async mode the calling thread    *)
(* and the pool's worker threads interleave.                               *)
(***************************************************************************)
EXTENDS Integers, Sequences, FiniteSets, TLC

\* ---- bounds of the model ------------------------------------------------
MaxSessions == 3
MaxSteps == 2
MaxWorkers == 2

\* ---- core/models.py -----------------------------------------------------
RadiusCommand == {"auth", "reauth", "start", "alive", "stop"}

\* delay_before: Field(0, ge=0); a zero and a positive representative
DelayValues == {0, 250}

\* avps: two representative attribute mappings
AvpValues == {"no_avps", "nas_avps"}

Step == [command : RadiusCommand, delay_before : DelayValues, avps : AvpValues]

ConnectionConfig == [server |-> "srv", secret |-> "sec", vendor |-> "mikrotik",
                     username |-> "user", password |-> "pass"]

RECURSIVE SeqsUpTo(_, _)
SeqsUpTo(S, n) ==
  IF n = 0 THEN {<<>>}
  ELSE LET shorter == SeqsUpTo(S, n - 1)
       IN  shorter \cup {Append(q, x) : q \in {r \in shorter : Len(r) = n - 1}, x \in S}

\* every Session the model of run_session is called with
Session == {[name |-> "sess", config |-> ConnectionConfig, sequence |-> q] :
              q \in SeqsUpTo(Step, MaxSteps)}

NoSession == [name |-> "none"]

\* ---- core/radius_clients ------------------------------------------------
\* the reply of a client operation that returns: {code, attributes}
ClientReply(op) == [code |-> IF op = "authenticate" THEN "Access-Accept" ELSE "Accounting-Response",
                    attributes |-> "attrs"]

\* str(RadiusClientError) raised by a client operation that fails
ClientError(op) ==
  IF op = "authenticate" THEN "Authentication failed" ELSE "Accounting request failed"

\* ---- core/engine.py: _execute_step --------------------------------------
\* (mutant) reauth is dispatched to authenticate
command_map_WithReauth ==
  [auth |-> "authenticate", reauth |-> "authenticate", start |-> "start",
   alive |-> "alive", stop |-> "stop"]

command_map == [auth |-> "authenticate", start |-> "start", alive |-> "alive", stop |-> "stop"]

UnknownCommand(c) == <<"Unknown command", c>>

\* (mutant) every operation is called like authenticate, with the password
ExecuteStep_PasswordAlways(client, step, config, replyOk) ==
  IF step.command \notin DOMAIN command_map
  THEN [raised |-> TRUE, value |-> UnknownCommand(step.command), calls |-> <<>>]
  ELSE LET op   == command_map[step.command]
           args == <<config.username, config.password, step.avps>>
           call == [kind |-> "call", client |-> client, op |-> op, args |-> args,
                    ok |-> replyOk]
       IN  IF replyOk
           THEN [raised |-> FALSE, value |-> ClientReply(op), calls |-> <<call>>]
           ELSE [raised |-> TRUE, value |-> ClientError(op), calls |-> <<call>>]

\* The outcome of one dispatch: raised or returned, and the client call made.
\* replyOk is the environment's answer to the client call, if one is made;
\* client is the instance the bound methods of command_map belong to.
ExecuteStep(client, step, config, replyOk) ==
  IF step.command \notin DOMAIN command_map
  THEN [raised |-> TRUE, value |-> UnknownCommand(step.command), calls |-> <<>>]
  ELSE LET op   == command_map[step.command]
           args == IF step.command = "auth"
                   THEN <<config.username, config.password, step.avps>>
                   ELSE <<config.username, step.avps>>
           call == [kind |-> "call", client |-> client, op |-> op, args |-> args,
                    ok |-> replyOk]
       IN  IF replyOk
           THEN [raised |-> FALSE, value |-> ClientReply(op), calls |-> <<call>>]
           ELSE [raised |-> TRUE, value |-> ClientError(op), calls |-> <<call>>]

\* ---- core/engine.py: run_session ----------------------------------------
\* pc: the yield the generator is suspended at ("new": not started),
\* "done" after it returned, "raised" after SessionExecutionError.
\* step: the 1-based number of the step of the current loop iteration.
\* ev: the events yielded so far.  effects: the client constructions, waits
\* and client calls performed so far, in order.
\* client: the instance the local variable client is bound to.
NoClient == [frame |-> 0, n |-> 0]

NewGen == [pc |-> "new", step |-> 0, ev |-> <<>>, effects |-> <<>>, error |-> "none",
           client |-> NoClient]

\* the generator object the call run_session(session) of execution i
\* returns; frame is the identity of that object
RunSession(i) == [frame |-> i] @@ NewGen

\* (mutant) the factory keeps one instance and returns it to every caller
NewClient_Cached(g) == [frame |-> 1, n |-> 1]

\* get_radius_client returns client_class(...): an instance that did not
\* exist before, named by the frame that made the call and the number of
\* the call in that frame
NewClient(g) ==
  [frame |-> g.frame,
   n |-> 1 + Cardinality({j \in 1..Len(g.effects) : g.effects[j].kind = "construct"})]

Yield(g, pc, e) == [g EXCEPT !.pc = pc, !.ev = Append(@, e)]

StepStartEvent(sess, k) ==
  [type |-> "step_start", step |-> k, total |-> Len(sess.sequence),
   command |-> sess.sequence[k].command]

\* (mutant) the loop stops one step early
LoopTop_OffByOne(sess, g, k) ==
  IF k < Len(sess.sequence)
  THEN Yield([g EXCEPT !.step = k], "step_start", StepStartEvent(sess, k))
  ELSE Yield(g, "session_end", [type |-> "session_end", status |-> "completed"])

\* top of the for loop with i = k - 1: the next step_start, or the end
LoopTop(sess, g, k) ==
  IF k <= Len(sess.sequence)
  THEN Yield([g EXCEPT !.step = k], "step_start", StepStartEvent(sess, k))
  ELSE Yield(g, "session_end", [type |-> "session_end", status |-> "completed"])

\* the try block of one iteration: dispatch, then step_success or step_failure
Dispatch(sess, g, replyOk) ==
  LET st == sess.sequence[g.step]
      r  == ExecuteStep(g.client, st, sess.config, replyOk)
      g1 == [g EXCEPT !.effects = @ \o <<[kind |-> "dispatch", step |-> g.step,
                                          raised |-> r.raised]>> \o r.calls]
  IN  IF r.raised
      THEN Yield(g1, "step_failure",
                 [type |-> "step_failure", step |-> g.step, command |-> st.command,
                  error |-> r.value])
      ELSE Yield(g1, "step_success",
                 [type |-> "step_success", step |-> g.step, command |-> st.command,
                  response_time_ms |-> "elapsed", result |-> r.value])

\* (mutant) the except block does not end the session
AfterStepFailure_Continue(sess, g) == LoopTop(sess, g, g.step + 1)

\* the except block after step_failure was yielded: session_end{failed}
AfterStepFailure(sess, g) ==
  Yield(g, "session_end_failed", [type |-> "session_end", status |-> "failed"])

\* (mutant) the failed construction is reported like a failed step
ClientInitFailure_AsStepFailure(g) ==
  Yield(g, "step_failure",
        [type |-> "step_failure", step |-> 0, command |-> "none",
         error |-> "Failed to initialize RADIUS client"])

\* the except clause around get_radius_client: SessionExecutionError is
\* raised out of the generator
ClientInitFailure(g) ==
  [g EXCEPT !.pc = "raised", !.error = "Failed to initialize RADIUS client"]

\* after step_start was yielded: the delay event if delay_before > 0, else
\* the dispatch at once
AfterStepStart(sess, g, extOk) ==
  LET d == sess.sequence[g.step].delay_before
  IN  IF d > 0
      THEN Yield(g, "delay", [type |-> "delay", duration_ms |-> d])
      ELSE Dispatch(sess, g, extOk)

\* (mutant) the step is dispatched without the wait
AfterDelay_NoWait(sess, g, extOk) == Dispatch(sess, g, extOk)

\* after delay was yielded: time.sleep(delay_before / 1000) on the thread
\* that resumed the generator, then the dispatch
AfterDelay(sess, g, extOk) ==
  LET d == sess.sequence[g.step].delay_before
  IN  Dispatch(sess, [g EXCEPT !.effects = Append(@, [kind |-> "sleep", ms |-> d])],
               extOk)

\* One resume of the generator: the code from the yield it is suspended at
\* to the next yield, return or raise.  extOk is the outcome of the one
\* external call the resumed code makes (client construction or client
\* operation), if it makes one.
GenResume(sess, g, extOk) ==
  CASE g.pc = "new" ->
         Yield(g, "session_start", [type |-> "session_start", name |-> sess.name])
    [] g.pc = "session_start" ->
         LET c  == IF extOk THEN NewClient(g) ELSE NoClient
             g1 == [g EXCEPT !.effects = Append(@, [kind |-> "construct", ok |-> extOk,
                                                    client |-> c]),
                             !.client = c]
         IN  IF extOk THEN LoopTop(sess, g1, 1) ELSE ClientInitFailure(g1)
    [] g.pc = "step_start" -> AfterStepStart(sess, g, extOk)
    [] g.pc = "delay" -> AfterDelay(sess, g, extOk)
    [] g.pc = "step_success" -> LoopTop(sess, g, g.step + 1)
    [] g.pc = "step_failure" -> AfterStepFailure(sess, g)
    [] g.pc \in {"session_end_failed", "session_end"} -> [g EXCEPT !.pc = "done"]
    [] OTHER -> g

GenFinished(g) == g.pc \in {"done", "raised"}

\* the resumes the environment allows
GenResumes(sess, g) == {GenResume(sess, g, ok) : ok \in BOOLEAN}

\* the event a resume yielded, given the generator before and after
Yielded(g, g2) == Len(g2.ev) > Len(g.ev)
LastEvent(g2) == g2.ev[Len(g2.ev)]

-----------------------------------------------------------------------------
VARIABLES
  cwd,            \* the working directory of the process
  plan_file,      \* the argument of load_plan
  data,           \* the session_files entries of the plan document
  mode,           \* "session": run_session called directly; else plan.mode
  max_workers,    \* PlanExecutionEngine.max_workers
  session_files,  \* plan.session_files
  files,          \* index -> what the session file holds (a Session, or Malformed)
  session,        \* index -> the Session loaded for it (NoSession before)
  gen,            \* index -> the run_session generator of that session
  ppc,            \* position of the run_plan generator / calling thread
  pidx,           \* idx of the loop the calling thread is in
  out,            \* the events run_plan has yielded to its consumer
  fut,            \* index -> state of the future submitted for the session
  collected,      \* index -> results record of _execute_session_collect
  results,        \* parallel: the summary dict; async: the gathered list
  finished        \* the indices of the finished calls, in the order they finished

vars == <<cwd, plan_file, data, mode, max_workers, session_files, files, session, gen, ppc, pidx, out,
          fut, collected, results, finished>>

planVars == <<ppc, pidx, out, fut, collected, results, finished>>

\* no path: load_plan is not part of the run
NoPath == [abs |-> FALSE, parts |-> <<"none">>]

-----------------------------------------------------------------------------
\* ---- run_session called directly (cli/commands.py run_session) ----------
InitSession ==
  /\ cwd = NoPath /\ plan_file = NoPath /\ data = <<>>
  /\ mode = "session"
  /\ max_workers = 1
  /\ session_files = <<>>
  /\ files = <<>>
  /\ session \in {<<s>> : s \in Session}
  /\ gen = <<RunSession(1)>>
  /\ ppc = "none"
  /\ pidx = 0
  /\ out = <<>>
  /\ fut = <<>>
  /\ collected = <<>>
  /\ results = <<>>
  /\ finished = <<>>

\* the consumer's for loop pulls the next event of run_session(session)
PullSession ==
  /\ mode = "session"
  /\ ~GenFinished(gen[1])
  /\ \E g2 \in GenResumes(session[1], gen[1]) : gen' = [gen EXCEPT ![1] = g2]
  /\ UNCHANGED <<cwd, plan_file, data, mode, max_workers, session_files, files, session, planVars>>

NextSession == PullSession

SpecSession == InitSession /\ [][NextSession]_vars

-----------------------------------------------------------------------------
\* ---- core/plan_engine.py ------------------------------------------------
\* the path of the idx-th session file of the plan
PathOf(idx) == <<"session_file", idx>>

\* the step a session file of a plan has at position k
PlanStep(k) ==
  IF k % 2 = 1
  THEN [command |-> "auth", delay_before |-> 0, avps |-> "no_avps"]
  ELSE [command |-> "stop", delay_before |-> 250, avps |-> "nas_avps"]

\* the Sessions the files of a plan hold: one of each length
PlanSession(n) ==
  [name |-> <<"sess", n>>, config |-> ConnectionConfig,
   sequence |-> [k \in 1..n |-> PlanStep(k)]]

PlanSessions == {PlanSession(n) : n \in 0..MaxSteps}

\* a file that is no valid Session document
Malformed == [malformed |-> TRUE]

N == Len(session_files)

InitPlan(modes, workers) ==
  /\ cwd = NoPath /\ plan_file = NoPath /\ data = <<>>
  /\ mode \in modes
  /\ max_workers \in workers
  /\ session_files \in {[i \in 1..n |-> PathOf(i)] : n \in 0..MaxSessions}
  /\ files \in [1..N -> PlanSessions \cup {Malformed}]
  /\ session = [i \in 1..N |-> NoSession]
  /\ gen = [i \in 1..N |-> RunSession(i)]
  /\ ppc = "new"
  /\ pidx = 0
  /\ out = <<>>
  /\ fut = [i \in 1..N |-> "none"]
  /\ collected = [i \in 1..N |-> <<>>]
  /\ results = <<>>
  /\ finished = <<>>

\* _load_session: Session(**data) of the file's document, or the exception
\* of open, yaml.safe_load or the validation
LoadError == "session load error"

LoadRaises(idx) == "sequence" \notin DOMAIN files[idx]

LoadSession(idx) == files[idx]

\* run_plan yields e and is suspended at pc
PlanYield(pc, e) == ppc' = pc /\ out' = Append(out, e)

\* ---- _run_sequential ----------------------------------------------------
\* (mutant) the session_file tag is left out
Tag_NoFile(e, idx) == [session_index |-> idx] @@ e

\* the events carry session_index and session_file in addition
Tag(e, idx) == [session_index |-> idx, session_file |-> PathOf(idx)] @@ e

\* (mutant) the loop over the files stops one file early
SeqLoopTop_OffByOne(idx) ==
  IF idx < N
  THEN /\ PlanYield("session_file_start",
                    [type |-> "session_file_start", index |-> idx, file |-> PathOf(idx)])
       /\ pidx' = idx
  ELSE /\ PlanYield("plan_complete", [type |-> "plan_complete", status |-> "completed"])
       /\ pidx' = pidx

\* top of the for loop over the files: the next file, or plan_complete
SeqLoopTop(idx) ==
  IF idx <= N
  THEN /\ PlanYield("session_file_start",
                    [type |-> "session_file_start", index |-> idx, file |-> PathOf(idx)])
       /\ pidx' = idx
  ELSE /\ PlanYield("plan_complete", [type |-> "plan_complete", status |-> "completed"])
       /\ pidx' = pidx

\* (mutant) the except clause is outside the for loop: an error ends the plan
SeqSessionError_EndsPlan(idx, err) ==
  /\ ppc' = "plan_complete"
  /\ out' = out \o <<[type |-> "session_error", index |-> idx, file |-> PathOf(idx),
                       error |-> err],
                      [type |-> "plan_complete", status |-> "completed"]>>

\* the except clause of the loop body: session_error, then the next file
SeqSessionError(idx, err) ==
  PlanYield("session_error",
            [type |-> "session_error", index |-> idx, file |-> PathOf(idx), error |-> err])

\* first resume: plan_start
SeqStart ==
  /\ mode = "sequential" /\ ppc = "new"
  /\ PlanYield("plan_start", [type |-> "plan_start", name |-> "plan", mode |-> "sequential",
                              total_sessions |-> N])
  /\ UNCHANGED <<cwd, plan_file, data, mode, max_workers, session_files, files, session, gen, pidx, fut, collected, results, finished>>

\* resume after plan_start, after a session_error, or after the generator of
\* the current session returned: the next file
SeqNextFile ==
  /\ mode = "sequential" /\ ppc \in {"plan_start", "session_error"}
  /\ SeqLoopTop(pidx + 1)
  /\ UNCHANGED <<cwd, plan_file, data, mode, max_workers, session_files, files, session, gen, fut, collected, results, finished>>

\* (mutant) a file that does not load is skipped without an event
SeqLoad_SkipsSilently ==
  /\ mode = "sequential" /\ ppc = "session_file_start"
  /\ IF LoadRaises(pidx)
     THEN /\ ppc' = "session_error" /\ out' = out
          /\ UNCHANGED session
     ELSE /\ session' = [session EXCEPT ![pidx] = LoadSession(pidx)]
          /\ PlanYield("session_loaded",
                       [type |-> "session_loaded", session_name |-> LoadSession(pidx).name])
  /\ UNCHANGED <<cwd, plan_file, data, mode, max_workers, session_files, files, gen, pidx, fut, collected, results, finished>>

\* resume after session_file_start: load the file
SeqLoad ==
  /\ mode = "sequential" /\ ppc = "session_file_start"
  /\ IF LoadRaises(pidx)
     THEN /\ SeqSessionError(pidx, LoadError)
          /\ UNCHANGED session
     ELSE /\ session' = [session EXCEPT ![pidx] = LoadSession(pidx)]
          /\ PlanYield("session_loaded",
                       [type |-> "session_loaded", session_name |-> LoadSession(pidx).name])
  /\ UNCHANGED <<cwd, plan_file, data, mode, max_workers, session_files, files, gen, pidx, fut, collected, results, finished>>

\* resume after session_loaded or after a forwarded event: the next event of
\* run_session, tagged; or its end; or its exception
SeqForward ==
  /\ mode = "sequential" /\ ppc \in {"session_loaded", "forward"}
  /\ \E g2 \in GenResumes(session[pidx], gen[pidx]) :
       /\ gen' = [gen EXCEPT ![pidx] = g2]
       /\ IF Yielded(gen[pidx], g2)
          THEN PlanYield("forward", Tag(LastEvent(g2), pidx)) /\ pidx' = pidx
          ELSE IF g2.pc = "raised"
               THEN SeqSessionError(pidx, g2.error) /\ pidx' = pidx
               ELSE SeqLoopTop(pidx + 1)
  /\ UNCHANGED <<cwd, plan_file, data, mode, max_workers, session_files, files, session, fut, collected, results, finished>>

\* (mutant) run_plan empties the plan's list of files when it returns
PlanFinish_ConsumesPlan ==
  /\ mode # "session" /\ ppc = "plan_complete"
  /\ ppc' = "done"
  /\ session_files' = <<>>
  /\ UNCHANGED <<cwd, plan_file, data, mode, max_workers, files, session, gen, pidx, out, fut,
                 collected, results, finished>>

\* resume after plan_complete: the generator returns
PlanFinish ==
  /\ mode # "session" /\ ppc = "plan_complete"
  /\ ppc' = "done"
  /\ UNCHANGED <<cwd, plan_file, data, mode, max_workers, session_files, files, session, gen, pidx, out, fut,
                 collected, results, finished>>

NextSequential == SeqStart \/ SeqNextFile \/ SeqLoad \/ SeqForward \/ PlanFinish

SpecSequential == InitPlan({"sequential"}, {1}) /\ [][NextSequential]_vars

-----------------------------------------------------------------------------
\* ---- the worker pools of parallel and async mode ------------------------
\* asyncio's default executor (run_in_executor(None, ...)) has
\* min(32, os.cpu_count() + 4) threads: at least 5, whatever max_workers is
DefaultExecutorWorkers == 5

\* (mutant) the thread of a call that raised does not return to the pool
Running_Leaky == {i \in 1..N : fut[i] \in {"running", "failed"}}

Running == {i \in 1..N : fut[i] = "running"}
Queued == {i \in 1..N : fut[i] = "queued"}

\* (mutant) a future counts as finished as soon as its call has started
FutureFinished_Started(i) == fut[i] \in {"running", "done", "failed"}

\* the call of the future has returned or raised
FutureFinished(i) == fut[i] \in {"done", "failed"}

Settled == {i \in 1..N : FutureFinished(i)}

\* (mutant) the pool starts a thread for every submitted call
PoolSize_Unbounded == MaxSessions + 1

\* the number of threads of the pool the sessions are submitted to
PoolSize == IF mode = "parallel" THEN max_workers ELSE DefaultExecutorWorkers

\* _execute_session_collect up to its for loop
NewResults(idx) ==
  [session_name |-> session[idx].name, index |-> idx, file |-> PathOf(idx), steps |-> <<>>]

\* (mutant) step_failure events are not recorded
Collect_DropsFailure(res, e) ==
  IF e.type = "step_success"
  THEN [res EXCEPT !.steps = Append(@, [step |-> e.step, command |-> e.command,
                                         response_time_ms |-> e.response_time_ms,
                                         status |-> "success"])]
  ELSE res

\* the body of the for loop of _execute_session_collect for one event
Collect(res, e) ==
  IF e.type = "step_success"
  THEN [res EXCEPT !.steps = Append(@, [step |-> e.step, command |-> e.command,
                                         response_time_ms |-> e.response_time_ms,
                                         status |-> "success"])]
  ELSE IF e.type = "step_failure"
  THEN [res EXCEPT !.steps = Append(@, [step |-> e.step, command |-> e.command,
                                         status |-> "failure", error |-> e.error])]
  ELSE res

\* a free thread of the pool takes the oldest queued call
WorkerStart(i) ==
  /\ mode \in {"parallel", "async"}
  /\ fut[i] = "queued"
  /\ \A j \in Queued : i <= j
  /\ Cardinality(Running) < PoolSize
  /\ fut' = [fut EXCEPT ![i] = "running"]
  /\ collected' = [collected EXCEPT ![i] = NewResults(i)]
  /\ UNCHANGED <<cwd, plan_file, data, mode, max_workers, session_files, files, session, gen, ppc, pidx, out, results,
                 finished>>

\* (mutant) an exception in one session cancels the calls still running
SiblingFut_Cancel(i, j, raised) ==
  IF j = i THEN (IF raised THEN "failed" ELSE fut[j])
  ELSE IF raised /\ fut[j] = "running" THEN "failed" ELSE fut[j]

\* the future of call j after the worker of call i made one more resume
SiblingFut(i, j, raised) ==
  IF j = i /\ raised THEN "failed" ELSE fut[j]

\* (mutant) the worker passes the events of run_session on to the stream
WorkerResume_Forwards(i) ==
  /\ mode \in {"parallel", "async"}
  /\ fut[i] = "running"
  /\ \E g2 \in GenResumes(session[i], gen[i]) :
       /\ gen' = [gen EXCEPT ![i] = g2]
       /\ collected' = [collected EXCEPT
                          ![i] = IF Yielded(gen[i], g2) THEN Collect(@, LastEvent(g2)) ELSE @]
       /\ out' = IF Yielded(gen[i], g2) THEN Append(out, LastEvent(g2)) ELSE out
       /\ fut' = [j \in 1..N |->
                    IF j = i /\ g2.pc = "done" THEN "done"
                    ELSE SiblingFut(i, j, g2.pc = "raised")]
       /\ finished' = IF GenFinished(g2) THEN Append(finished, i) ELSE finished
  /\ UNCHANGED <<cwd, plan_file, data, mode, max_workers, session_files, files, session, ppc, pidx, results>>

\* the worker of call i: one iteration of the for loop of
\* _execute_session_collect; the return; or the exception of run_session
WorkerResume(i) ==
  /\ mode \in {"parallel", "async"}
  /\ fut[i] = "running"
  /\ \E g2 \in GenResumes(session[i], gen[i]) :
       /\ gen' = [gen EXCEPT ![i] = g2]
       /\ collected' = [collected EXCEPT
                          ![i] = IF Yielded(gen[i], g2) THEN Collect(@, LastEvent(g2)) ELSE @]
       /\ fut' = [j \in 1..N |->
                    IF j = i /\ g2.pc = "done" THEN "done"
                    ELSE SiblingFut(i, j, g2.pc = "raised")]
       /\ finished' = IF GenFinished(g2) THEN Append(finished, i) ELSE finished
  /\ UNCHANGED <<cwd, plan_file, data, mode, max_workers, session_files, files, session, ppc, pidx, out, results>>

\* ---- the calling thread: loading and submitting -------------------------
\* first resume of _run_parallel / _run_async: plan_start
ConcStart ==
  /\ mode \in {"parallel", "async"} /\ ppc = "new"
  /\ PlanYield("plan_start",
               IF mode = "parallel"
               THEN [type |-> "plan_start", name |-> "plan", mode |-> "parallel",
                     total_sessions |-> N]
               ELSE [type |-> "plan_start", name |-> "plan", mode |-> "async"])
  /\ UNCHANGED <<cwd, plan_file, data, mode, max_workers, session_files, files, session, gen, pidx, fut, collected, results, finished>>

\* resume after plan_start: the thread enters the submit loop
ConcEnter ==
  /\ mode \in {"parallel", "async"} /\ ppc = "plan_start"
  /\ ppc' = "submit" /\ pidx' = 1
  /\ UNCHANGED <<cwd, plan_file, data, mode, max_workers, session_files, files, session, gen, out, fut, collected, results, finished>>

\* (mutant) the load error is caught in the loop and reported as an event
ConcLoadError_Reported(idx) ==
  /\ ppc' = ppc
  /\ pidx' = idx + 1
  /\ out' = Append(out, [type |-> "session_error", index |-> idx, file |-> PathOf(idx),
                          error |-> LoadError])

\* _load_session raises in the submit loop: nothing catches the exception,
\* it leaves the loop and no event is yielded for it
ConcLoadError(idx) ==
  /\ ppc' = "abort"
  /\ pidx' = idx
  /\ out' = out

\* one iteration of the submit loop: load the file and submit the call; a
\* load error leaves the loop with the exception
ConcLoadSubmit ==
  /\ mode \in {"parallel", "async"} /\ ppc = "submit" /\ pidx <= N
  /\ IF LoadRaises(pidx)
     THEN /\ ConcLoadError(pidx)
          /\ UNCHANGED <<session, fut>>
     ELSE /\ session' = [session EXCEPT ![pidx] = LoadSession(pidx)]
          /\ fut' = [fut EXCEPT ![pidx] = "queued"]
          /\ pidx' = pidx + 1
          /\ ppc' = ppc
          /\ out' = out
  /\ UNCHANGED <<cwd, plan_file, data, mode, max_workers, session_files, files, gen, collected, results, finished>>

\* the load error leaves the with block (parallel) or asyncio.run (async):
\* the pool is shut down waiting for the submitted calls, then run_plan raises
ConcAbort ==
  /\ mode \in {"parallel", "async"} /\ ppc = "abort"
  /\ \A i \in 1..N : fut[i] \in {"none", "done", "failed"}
  /\ ppc' = "raised"
  /\ UNCHANGED <<cwd, plan_file, data, mode, max_workers, session_files, files, session, gen, pidx, out, fut,
                 collected, results, finished>>

\* ---- _run_parallel: as_completed ----------------------------------------
\* the number of the step of session i that was recorded as a failure, 0
\* if none was
FaultStepOf(i) ==
  LET F == {k \in 1..Len(collected[i].steps) : collected[i].steps[k].status = "failure"}
  IN  IF F = {} THEN 0 ELSE CHOOSE k \in F : TRUE

\* (mutant) a session that ended in a step failure is recorded as an error
ParOutcome_FailureIsError(i) ==
  IF fut[i] = "done" /\ FaultStepOf(i) = 0
  THEN [status |-> "success", results |-> collected[i]]
  ELSE [status |-> "error", error |-> gen[i].error]

ParOutcome(i) ==
  IF fut[i] = "done"
  THEN [status |-> "success", results |-> collected[i]]
  ELSE [status |-> "error", error |-> gen[i].error]

ParEvent(i) ==
  IF fut[i] = "done"
  THEN [type |-> "session_complete", index |-> i, file |-> PathOf(i),
        name |-> session[i].name, results |-> collected[i]]
  ELSE [type |-> "session_error", index |-> i, file |-> PathOf(i), error |-> gen[i].error]

\* (mutant) as_completed hands a future out again
AsCompleted_Again == Settled

\* the futures as_completed can hand out next: finished, not handed out yet
AsCompleted == Settled \ DOMAIN results

\* as_completed hands out a finished future not handed out before; the
\* thread records its outcome and yields its event
ParCollect ==
  /\ mode = "parallel"
  /\ \/ ppc = "submit" /\ pidx > N
     \/ ppc = "session_event"
  /\ \E i \in AsCompleted :
       /\ results' = (i :> ParOutcome(i)) @@ results
       /\ PlanYield("session_event", ParEvent(i))
  /\ UNCHANGED <<cwd, plan_file, data, mode, max_workers, session_files, files, session, gen, pidx, fut, collected,
                 finished>>

\* (mutant) as_completed ends when no finished future is waiting
AsCompletedExhausted_Early == AsCompleted = {}

\* the for loop over as_completed ends when every submitted future has
\* been handed out
AsCompletedExhausted == DOMAIN results = 1..N

\* as_completed is exhausted, the with block ends: plan_complete
ParComplete ==
  /\ mode = "parallel"
  /\ \/ ppc = "submit" /\ pidx > N
     \/ ppc = "session_event"
  /\ AsCompletedExhausted
  /\ PlanYield("plan_complete",
               [type |-> "plan_complete", status |-> "completed", summary |-> results])
  /\ UNCHANGED <<cwd, plan_file, data, mode, max_workers, session_files, files, session, gen, pidx, fut, collected, results, finished>>

\* ---- _run_async ---------------------------------------------------------
AsyncResult(i) ==
  IF fut[i] = "done" THEN [raised |-> FALSE, value |-> collected[i]]
  ELSE [raised |-> TRUE, value |-> gen[i].error]

AsyncEvent(idx, r) ==
  IF r.raised
  THEN [type |-> "session_error", index |-> idx, error |-> r.value]
  ELSE [type |-> "session_complete", index |-> idx, results |-> r.value]

\* (mutant) gather returns as soon as one call has finished
GatherReady_Any == Settled # {} \/ N = 0

\* asyncio.gather(*tasks, return_exceptions=True) returns when every call
\* has finished
GatherReady == Settled = 1..N

\* asyncio.run returns the list of the results, in the order of the tasks
AsyncGather ==
  /\ mode = "async" /\ ppc = "submit" /\ pidx > N
  /\ GatherReady
  /\ results' = [i \in 1..N |-> AsyncResult(i)]
  /\ ppc' = "gathered" /\ pidx' = 1
  /\ UNCHANGED <<cwd, plan_file, data, mode, max_workers, session_files, files, session, gen, out, fut, collected,
                 finished>>

\* the loop over the results: the event of the next index, or plan_complete.
\* The first event is yielded by the resume that gathered, the others by
\* the resumes that follow.
AsyncEmit ==
  /\ mode = "async" /\ ppc \in {"gathered", "session_event"}
  /\ IF pidx <= N
     THEN PlanYield("session_event", AsyncEvent(pidx, results[pidx])) /\ pidx' = pidx + 1
     ELSE PlanYield("plan_complete", [type |-> "plan_complete"]) /\ pidx' = pidx
  /\ UNCHANGED <<cwd, plan_file, data, mode, max_workers, session_files, files, session, gen, fut, collected, results, finished>>

NextConcurrent ==
  \/ ConcStart \/ ConcEnter \/ ConcLoadSubmit \/ ConcAbort
  \/ \E i \in 1..N : WorkerStart(i)
  \/ \E i \in 1..N : WorkerResume(i)
  \/ ParCollect \/ ParComplete
  \/ AsyncGather \/ AsyncEmit
  \/ PlanFinish

SpecConcurrent ==
  InitPlan({"parallel", "async"}, 1..MaxWorkers) /\ [][NextConcurrent]_vars

-----------------------------------------------------------------------------
\* ---- core/plan_engine.py: load_plan ------------------------------------
\* A path string is its components between the slashes and whether it
\* starts with a slash.  A pathlib.Path holds the same without the "."
\* components, which its constructor drops (".." is kept).
MaxEntries == 2

Raw(abs, parts) == [abs |-> abs, parts |-> parts]

NotDot(x) == x # "."

\* Path(string)
ParsePath(raw) == [abs |-> raw.abs, parts |-> SelectSeq(raw.parts, NotDot)]

\* Path.parent: the path without its last component; the root and "." are
\* their own parents
Parent(q) ==
  IF q.parts = <<>> THEN q ELSE [q EXCEPT !.parts = SubSeq(@, 1, Len(@) - 1)]

\* q / r: an absolute right operand replaces the left one
Join(q, r) ==
  IF r.abs THEN r ELSE [abs |-> q.abs, parts |-> q.parts \o r.parts]

\* the working directories of the process
WorkingDirs ==
  {Raw(TRUE, <<>>), Raw(TRUE, <<"a">>), Raw(TRUE, <<"a", "b">>), Raw(TRUE, <<"x">>)}

\* the plan_file arguments: absolute (as the CLI passes them, resolve_path)
\* and relative to the working directory
PlanFiles ==
  {Raw(TRUE, <<"a", "b", "plan.yaml">>), Raw(TRUE, <<"plan.yaml">>),
   Raw(FALSE, <<"b", "plan.yaml">>), Raw(FALSE, <<"plan.yaml">>),
   Raw(FALSE, <<".", "plan.yaml">>)}

\* the entries a plan document lists under session_files
Entries ==
  {Raw(FALSE, <<"s1.yaml">>), Raw(FALSE, <<"sub", "s2.yaml">>),
   Raw(FALSE, <<"..", "s3.yaml">>), Raw(FALSE, <<".", "s1.yaml">>),
   Raw(TRUE, <<"x", "s4.yaml">>)}

InitLoadPlan ==
  /\ cwd \in WorkingDirs
  /\ plan_file \in {ParsePath(f) : f \in PlanFiles}
  /\ data \in SeqsUpTo(Entries, MaxEntries)
  /\ mode = "load_plan"
  /\ max_workers = 1
  /\ session_files = <<>>
  /\ files = <<>>
  /\ session = <<>>
  /\ gen = <<>>
  /\ ppc = "new"
  /\ pidx = 0
  /\ out = <<>>
  /\ fut = <<>>
  /\ collected = <<>>
  /\ results = <<>>
  /\ finished = <<>>

\* (mutant) the entries are left relative to the working directory
plan_dir_Cwd(f) == [abs |-> FALSE, parts |-> <<>>]

\* plan_dir = plan_file.parent
plan_dir(f) == Parent(f)

\* load_plan(plan_file): every entry of the document is replaced, in place,
\* by plan_dir / entry; ExecutionPlan keeps the list as it is
LoadPlan ==
  /\ mode = "load_plan" /\ ppc = "new"
  /\ session_files' = [i \in 1..Len(data) |-> Join(plan_dir(plan_file), ParsePath(data[i]))]
  /\ ppc' = "loaded"
  /\ UNCHANGED <<cwd, plan_file, data, mode, max_workers, files, session, gen, pidx, out,
                 fut, collected, results, finished>>

NextLoadPlan == LoadPlan

SpecLoadPlan == InitLoadPlan /\ [][NextLoadPlan]_vars

-----------------------------------------------------------------------------
\* ---- properties of run_session ------------------------------------------
IsPrefix(a, b) == Len(a) <= Len(b) /\ a = SubSeq(b, 1, Len(a))

EventsOfType(ev, t) == {j \in 1..Len(ev) : ev[j].type = t}

DispatchEntries(g) == {j \in 1..Len(g.effects) : g.effects[j].kind = "dispatch"}
CallEntries(g) == {j \in 1..Len(g.effects) : g.effects[j].kind = "call"}

\* every dispatch made so far has returned normally
NoFault(g) == \A j \in DispatchEntries(g) : ~g.effects[j].raised

\* the step whose dispatch faulted, 0 if none has
FaultStep(g) ==
  LET F == {j \in DispatchEntries(g) : g.effects[j].raised}
  IN  IF F = {} THEN 0 ELSE g.effects[CHOOSE j \in F : TRUE].step

\* events of one step that succeeds, as the spec lists them
StepEvents(sess, k, last) ==
  LET st == sess.sequence[k]
  IN  <<[type |-> "step_start", step |-> k, total |-> Len(sess.sequence),
         command |-> st.command]>>
      \o (IF st.delay_before > 0
          THEN <<[type |-> "delay", duration_ms |-> st.delay_before]>> ELSE <<>>)
      \o <<last>>

SuccessEvent(sess, k) ==
  [type |-> "step_success", step |-> k, command |-> sess.sequence[k].command,
   response_time_ms |-> "elapsed",
   result |-> IF sess.sequence[k].command \in DOMAIN command_map
              THEN ClientReply(command_map[sess.sequence[k].command])
              ELSE "no_reply"]

RECURSIVE SuccessPrefix(_, _)
\* session_start and the events of the steps 1..k, all successful
SuccessPrefix(sess, k) ==
  IF k = 0 THEN <<[type |-> "session_start", name |-> sess.name]>>
  ELSE SuccessPrefix(sess, k - 1) \o StepEvents(sess, k, SuccessEvent(sess, k))

ExpectedCompleted(sess) ==
  SuccessPrefix(sess, Len(sess.sequence))
    \o <<[type |-> "session_end", status |-> "completed"]>>

\* C1: while every dispatched operation has returned normally, run_session
\* yields session_start, then per step in order step_start (step = i,
\* total = n), a delay iff delay_before > 0, and step_success (step = i);
\* when it returns the stream is exactly that, with session_end{completed}
\* as the last event and n step_success events (for n = 0: session_start,
\* session_end{completed}).
C1_AllStepsSucceed ==
  \A s \in DOMAIN gen :
    (mode = "session" /\ NoFault(gen[s])) =>
      /\ IsPrefix(gen[s].ev, ExpectedCompleted(session[s]))
      /\ gen[s].pc = "done" =>
           /\ gen[s].ev = ExpectedCompleted(session[s])
           /\ Cardinality(EventsOfType(gen[s].ev, "step_success"))
                = Len(session[s].sequence)

\* a two-step session, one step delayed and one not, ran to its end
C1_Witness ==
  /\ mode = "session"
  /\ gen[1].pc = "done"
  /\ NoFault(gen[1])
  /\ Len(session[1].sequence) = 2
  /\ session[1].sequence[1].delay_before > 0
  /\ session[1].sequence[2].delay_before = 0

ExpectedFailed(sess, k) ==
  SuccessPrefix(sess, k - 1)
    \o StepEvents(sess, k,
         [type |-> "step_failure", step |-> k, command |-> sess.sequence[k].command,
          error |-> IF sess.sequence[k].command \in DOMAIN command_map
                    THEN ClientError(command_map[sess.sequence[k].command])
                    ELSE UnknownCommand(sess.sequence[k].command)])
    \o <<[type |-> "session_end", status |-> "failed"]>>

\* C2: when step k is the first whose dispatch faults, the stream is the
\* successful events of steps 1..k-1, step_start and step_failure of step k,
\* then session_end{failed} as the last event; nothing is dispatched and no
\* client operation is invoked for a step after k, and run_session does not
\* raise.
C2_FirstFaultEndsSession ==
  \A s \in DOMAIN gen :
    LET g == gen[s]
        k == FaultStep(g)
    IN  (mode = "session" /\ k > 0) =>
          /\ g.pc \in {"step_failure", "session_end_failed", "done"}
          /\ g.error = "none"
          /\ IsPrefix(g.ev, ExpectedFailed(session[s], k))
          /\ Len(g.ev) >= Len(ExpectedFailed(session[s], k)) - 1
          /\ g.pc = "done" => g.ev = ExpectedFailed(session[s], k)
          /\ \A j \in DispatchEntries(g) : g.effects[j].step <= k
          /\ Cardinality(DispatchEntries(g)) = k
          /\ Cardinality(CallEntries(g)) <= k
          /\ \A j \in 1..Len(g.ev) : "step" \in DOMAIN g.ev[j] => g.ev[j].step <= k

\* the first of two steps faulted at the client and the generator returned
C2_Witness ==
  /\ mode = "session"
  /\ gen[1].pc = "done"
  /\ FaultStep(gen[1]) = 1
  /\ Len(session[1].sequence) = 2
  /\ session[1].sequence[1].command = "auth"

-----------------------------------------------------------------------------
\* ---- properties of the parallel and async plan modes --------------------
IsCompletion(e) == e.type \in {"session_complete", "session_error"}

\* the session_complete and session_error events yielded so far, in order
CompletionEvents == SelectSeq(out, IsCompletion)

CompletionsOf(i) == {p \in 1..Len(out) : IsCompletion(out[p]) /\ out[p].index = i}

PlanCompleted == ppc \in {"plan_complete", "done"}

\* C3: in async mode no session_complete or session_error is emitted before
\* every session has finished executing, and those events come in ascending
\* index order 1..N whatever the order the sessions finished in.
C3_AsyncJoinThenAscending ==
  mode = "async" =>
    /\ CompletionEvents # <<>> => Settled = 1..N
    /\ \A j \in 1..Len(CompletionEvents) : CompletionEvents[j].index = j
    /\ PlanCompleted => Len(CompletionEvents) = N

\* three sessions finished in the order 3, 2, 1 and all were reported
C3_Witness ==
  /\ mode = "async"
  /\ finished = <<3, 2, 1>>
  /\ Len(CompletionEvents) = 3

\* C4: in parallel mode at most max_workers sessions are executing (started
\* and not finished) at the same time.
C4_ParallelWorkerBound ==
  mode = "parallel" => Cardinality(Running) <= max_workers

\* W = 2, N = 3: two sessions execute while the third waits in the queue
C4_Witness ==
  /\ mode = "parallel" /\ max_workers = 2 /\ N = 3
  /\ Cardinality(Running) = 2
  /\ Queued # {}

\* C5: in async mode at most max_workers sessions are executing at the same
\* time.
C5_AsyncWorkerBound ==
  mode = "async" => Cardinality(Running) <= max_workers

\* C6: in parallel mode every index 1..N gets exactly one session_complete
\* or session_error event, N in total, whatever the outcome of each session.
C6_OneCompletionPerSession ==
  mode = "parallel" =>
    /\ \A i \in 1..N : Cardinality(CompletionsOf(i)) <= 1
    /\ \A p \in 1..Len(out) : IsCompletion(out[p]) => out[p].index \in 1..N
    /\ PlanCompleted =>
         /\ Len(CompletionEvents) = N
         /\ \A i \in 1..N : Cardinality(CompletionsOf(i)) = 1

\* three sessions with three different outcomes, all reported
C6_Witness ==
  /\ mode = "parallel" /\ N = 3 /\ ppc = "done"
  /\ \E i, j, k \in 1..N :
       /\ fut[i] = "failed"
       /\ fut[j] = "done" /\ FaultStep(gen[j]) > 0
       /\ fut[k] = "done" /\ FaultStep(gen[k]) = 0

\* the stream run_session yields for the session of index i, given the
\* faults of that session alone
NaturalStream(i) ==
  IF FaultStep(gen[i]) = 0 THEN ExpectedCompleted(session[i])
  ELSE ExpectedFailed(session[i], FaultStep(gen[i]))

RECURSIVE NaturalSteps(_, _)
\* the steps entries of the results of session i for the steps 1..k
NaturalSteps(i, k) ==
  IF k = 0 THEN <<>>
  ELSE LET c == session[i].sequence[k].command
       IN  NaturalSteps(i, k - 1) \o
           <<IF FaultStep(gen[i]) = k
             THEN [step |-> k, command |-> c, status |-> "failure",
                   error |-> IF c \in DOMAIN command_map THEN ClientError(command_map[c])
                             ELSE UnknownCommand(c)]
             ELSE [step |-> k, command |-> c, response_time_ms |-> "elapsed",
                   status |-> "success"]>>

NaturalResults(i) ==
  [session_name |-> session[i].name, index |-> i, file |-> PathOf(i),
   steps |-> NaturalSteps(i, IF FaultStep(gen[i]) = 0 THEN Len(session[i].sequence)
                             ELSE FaultStep(gen[i]))]

ClientInitFailed(g) ==
  \E j \in 1..Len(g.effects) : g.effects[j].kind = "construct" /\ ~g.effects[j].ok

\* C7: in parallel and async mode a client-initialization error or a step
\* fault of one session never cancels or alters a sibling: every session
\* that finishes has run its own steps to its own natural end, its future
\* carries an exception only if its own client initialization failed, and
\* its completion event reports its own outcome alone; when the plan
\* completes every session has its completion event.
C7_FailureIsolation ==
  /\ \A i \in 1..N :
       /\ fut[i] = "failed" => gen[i].pc = "raised" /\ ClientInitFailed(gen[i])
       /\ fut[i] = "done" =>
            /\ gen[i].pc = "done"
            /\ gen[i].ev = NaturalStream(i)
            /\ collected[i] = NaturalResults(i)
       /\ \A p \in CompletionsOf(i) :
            /\ fut[i] \in {"done", "failed"}
            /\ out[p].type = "session_error" <=> ClientInitFailed(gen[i])
            /\ out[p].type = "session_error" => out[p].error = gen[i].error
            /\ out[p].type = "session_complete" => out[p].results = NaturalResults(i)
  /\ PlanCompleted => \A i \in 1..N : Cardinality(CompletionsOf(i)) = 1

\* a client-initialization error finished first, a step fault second, and
\* the third session still ran its two steps and was reported
C7_Witness ==
  /\ ppc = "done" /\ N = 3 /\ Len(finished) = 3
  /\ fut[finished[1]] = "failed"
  /\ FaultStep(gen[finished[2]]) > 0
  /\ fut[finished[3]] = "done" /\ FaultStep(gen[finished[3]]) = 0
  /\ Len(session[finished[3]].sequence) = 2

-----------------------------------------------------------------------------
\* ---- properties of the sequential plan mode -----------------------------
IsFileStart(e) == e.type = "session_file_start"

FileStarts == SelectSeq(out, IsFileStart)

HasFileStart(i) == \E p \in 1..Len(out) : IsFileStart(out[p]) /\ out[p].index = i

FileStartPos(i) == CHOOSE p \in 1..Len(out) : IsFileStart(out[p]) /\ out[p].index = i

HasPlanComplete == \E p \in 1..Len(out) : out[p].type = "plan_complete"

\* the last position of the events between session_file_start of index i
\* and the next session_file_start (or plan_complete)
SegmentEnd(i) ==
  IF HasFileStart(i + 1) THEN FileStartPos(i + 1) - 1
  ELSE IF HasPlanComplete
       THEN (CHOOSE p \in 1..Len(out) : out[p].type = "plan_complete") - 1
       ELSE Len(out)

SegmentClosed(i) == HasFileStart(i + 1) \/ HasPlanComplete

\* session_file_start of index i and the events after it, up to the next file
Segment(i) == SubSeq(out, FileStartPos(i), SegmentEnd(i))

\* the event names index i as its session
BelongsTo(e, i) ==
  \/ "index" \in DOMAIN e /\ e.index = i
  \/ "session_index" \in DOMAIN e /\ e.session_index = i

Loaded(i) == "sequence" \in DOMAIN session[i]

\* files [A, B, C]: the plan ran to its end, A and C loaded, B did not
ScenarioABC ==
  /\ mode = "sequential" /\ ppc = "done" /\ N = 3
  /\ ~LoadRaises(1) /\ LoadRaises(2) /\ ~LoadRaises(3)

\* the parts of C8 that do not depend on how C ends
LoadErrorIsolated ==
  /\ \A i \in 1..3 : HasFileStart(i)
  /\ Segment(2) = <<[type |-> "session_file_start", index |-> 2, file |-> PathOf(2)],
                    [type |-> "session_error", index |-> 2, file |-> PathOf(2),
                     error |-> LoadError]>>
  /\ Len(Segment(3)) >= 3
  /\ Segment(3)[2] = [type |-> "session_loaded", session_name |-> session[3].name]
  /\ out = <<out[1]>> \o Segment(1) \o Segment(2) \o Segment(3) \o <<out[Len(out)]>>
  /\ out[1].type = "plan_start"
  /\ out[Len(out)].type = "plan_complete"
  /\ \A i \in 1..3 : \A j \in 1..Len(Segment(i)) : \A k \in (1..3) \ {i} :
       ~BelongsTo(Segment(i)[j], k)

\* C8 as claimed: with files [A, B, C] where only B fails to load, B gets a
\* session_error and no session_loaded, C is loaded and run through to its
\* session_end, the events of A, B and C come in file order, and
\* plan_complete follows.
C8_LoadErrorThenSessionEnd ==
  ScenarioABC =>
    /\ LoadErrorIsolated
    /\ Segment(3)[Len(Segment(3))].type = "session_end"

\* C8 as amended: C is run through to its terminal event, which is its
\* session_end, or session_error right after its session_start when the
\* client initialization of C fails.
C8_LoadErrorThenTerminalEvent ==
  ScenarioABC =>
    /\ LoadErrorIsolated
    /\ IF ClientInitFailed(gen[3])
       THEN /\ Len(Segment(3)) = 4
            /\ Segment(3)[3].type = "session_start"
            /\ Segment(3)[4] = [type |-> "session_error", index |-> 3, file |-> PathOf(3),
                                error |-> gen[3].error]
       ELSE Segment(3)[Len(Segment(3))].type = "session_end"

\* B failed to load and C ran its two steps to session_end{completed}
C8_Witness ==
  /\ ScenarioABC
  /\ Len(session[3].sequence) = 2
  /\ gen[3].pc = "done" /\ FaultStep(gen[3]) = 0

\* C9: in sequential mode session_file_start carries the indices 1..N once
\* each in ascending order, every event of index i comes before
\* session_file_start of index i + 1 and no two sessions are in execution
\* together, the plan reaches every file whatever the outcome of the
\* sessions before it, and plan_complete{completed} is emitted once, last.
C9_SequentialOrder ==
  mode = "sequential" =>
    /\ LET fs == FileStarts
       IN  /\ \A j \in 1..Len(fs) : fs[j].index = j
           /\ Len(fs) <= N
    /\ \A i \in 1..N :
         LET first == IF HasFileStart(i) THEN FileStartPos(i) ELSE Len(out) + 1
             next  == IF HasFileStart(i + 1) THEN FileStartPos(i + 1) ELSE Len(out) + 1
         IN  \A p \in 1..Len(out) : BelongsTo(out[p], i) => first <= p /\ p < next
    /\ \A i \in 1..N : i # pidx => gen[i].pc \in {"new", "done", "raised"}
    /\ \A p \in 1..Len(out) :
         out[p].type = "plan_complete" => p = Len(out) /\ out[p].status = "completed"
    /\ PlanCompleted =>
         /\ Len(FileStarts) = N
         /\ out[Len(out)].type = "plan_complete"

\* the plan went on after a client-initialization failure, after a step
\* failure and after a completed session
C9_Witness ==
  /\ mode = "sequential" /\ ppc = "done" /\ N = 3
  /\ gen[1].pc = "raised"
  /\ gen[2].pc = "done" /\ FaultStep(gen[2]) > 0
  /\ gen[3].pc = "done" /\ FaultStep(gen[3]) = 0 /\ Len(session[3].sequence) > 0

\* the events after session_loaded of index i, up to the next file
AfterLoaded(i) == SubSeq(out, FileStartPos(i) + 2, SegmentEnd(i))

\* e is the event g with nothing changed but the two tags added
IsTagged(e, g, i) ==
  /\ DOMAIN e = DOMAIN g \cup {"session_index", "session_file"}
  /\ \A f \in DOMAIN g : e[f] = g[f]
  /\ e.session_index = i
  /\ e.session_file = PathOf(i)

\* the first n events after session_loaded are the events of run_session
Forwarded(i, n) ==
  LET after == AfterLoaded(i)
  IN  \A j \in 1..n : IsTagged(after[j], gen[i].ev[j], i)

\* C10 as claimed: for every loaded session the events between
\* session_loaded and the next session_file_start (or plan_complete) are
\* exactly the events of run_session, in order, unchanged but for the added
\* session_index and session_file.
C10_ForwardedExactly ==
  mode = "sequential" =>
    \A i \in 1..N :
      (Loaded(i) /\ SegmentClosed(i)) =>
        /\ Len(AfterLoaded(i)) = Len(gen[i].ev)
        /\ Forwarded(i, Len(gen[i].ev))

\* C10 as amended: the events after session_loaded are exactly the tagged
\* events of run_session, followed by one session_error{index, file, error}
\* without the tags when run_session raised (client initialization).
C10_ForwardedThenError ==
  mode = "sequential" =>
    \A i \in 1..N :
      (Loaded(i) /\ HasFileStart(i)) =>
        LET after == AfterLoaded(i)
        IN  /\ Len(after) >= Len(gen[i].ev)
            /\ Forwarded(i, Len(gen[i].ev))
            /\ SegmentClosed(i) =>
                 IF gen[i].pc = "raised"
                 THEN /\ Len(after) = Len(gen[i].ev) + 1
                      /\ after[Len(after)]
                           = [type |-> "session_error", index |-> i, file |-> PathOf(i),
                              error |-> gen[i].error]
                 ELSE Len(after) = Len(gen[i].ev) /\ gen[i].pc = "done"

\* a two-step session with a delay was forwarded to its end, and another
\* session ended in session_error
C10_Witness ==
  /\ mode = "sequential" /\ ppc = "done"
  /\ \E i, j \in 1..N :
       /\ Loaded(i) /\ gen[i].pc = "done" /\ Len(gen[i].ev) = 7
       /\ Loaded(j) /\ gen[j].pc = "raised"

-----------------------------------------------------------------------------
\* ---- the client construction of run_session ----------------------------
\* C11: when the construction of the client fails, run_session raises
\* SessionExecutionError to its caller: the stream of that call is
\* session_start alone, with no step_start, delay, step_success,
\* step_failure or session_end event, nothing is dispatched, and the
\* generator ends raised, never through a step_failure.
C11_ClientInitFailureRaises ==
  \A s \in DOMAIN gen :
    ClientInitFailed(gen[s]) =>
      /\ gen[s].pc = "raised"
      /\ gen[s].error = "Failed to initialize RADIUS client"
      /\ gen[s].ev = <<[type |-> "session_start", name |-> session[s].name]>>
      /\ \A j \in 1..Len(gen[s].ev) :
           gen[s].ev[j].type \notin {"step_start", "delay", "step_success",
                                     "step_failure", "session_end"}
      /\ DispatchEntries(gen[s]) = {} /\ CallEntries(gen[s]) = {}

\* the client of a two-step session could not be constructed
C11_Witness ==
  /\ mode = "session"
  /\ ClientInitFailed(gen[1])
  /\ Len(session[1].sequence) = 2

-----------------------------------------------------------------------------
\* ---- load errors in parallel and async mode ----------------------------
\* the first file of the plan that does not load, 0 if every file loads
FirstLoadError ==
  IF \A i \in 1..N : ~LoadRaises(i) THEN 0
  ELSE CHOOSE i \in 1..N : LoadRaises(i) /\ \A j \in 1..(i - 1) : ~LoadRaises(j)

\* C12: in parallel and async mode, when a session file fails to load, no
\* session_error event is yielded for it (the stream never gets beyond
\* plan_start), the submit loop is left at that file with the exception,
\* run_plan raises, and no plan_complete is ever emitted.
C12_LoadErrorAbortsRun ==
  (mode \in {"parallel", "async"} /\ FirstLoadError > 0) =>
    /\ \A p \in 1..Len(out) : out[p].type \notin {"session_error", "session_complete",
                                                    "plan_complete"}
    /\ Len(out) <= 1
    /\ ~PlanCompleted
    /\ ppc \in {"new", "plan_start", "submit", "abort", "raised"}
    /\ ppc = "submit" => pidx <= FirstLoadError
    /\ ppc \in {"abort", "raised"} =>
         /\ pidx = FirstLoadError
         /\ \A i \in 1..N : i >= pidx => fut[i] = "none" /\ ~Loaded(i)
    /\ ppc = "raised" => \A i \in 1..N : fut[i] \in {"none", "done", "failed"}

\* the second of three files did not load: the first session had been
\* submitted and ran to its end, the third was never loaded, run_plan raised
C12_Witness ==
  /\ mode \in {"parallel", "async"} /\ N = 3
  /\ FirstLoadError = 2
  /\ ppc = "raised"
  /\ fut[1] = "done" /\ Len(gen[1].ev) > 2

-----------------------------------------------------------------------------
\* ---- the event contract of the plan modes ------------------------------
HasFields(e, F) == F \subseteq DOMAIN e

\* C13: in every plan mode the first event is plan_start carrying mode and
\* total_sessions, the last event of a run that returned is plan_complete
\* carrying status completed, and in parallel and async mode every
\* session_complete carries index, file, name and results and every
\* session_error carries index, file and error.
C13_UniformEventContract ==
  mode \in {"sequential", "parallel", "async"} =>
    /\ out # <<>> =>
         /\ out[1].type = "plan_start"
         /\ HasFields(out[1], {"mode", "total_sessions"})
         /\ out[1].mode = mode
         /\ out[1].total_sessions = N
    /\ ppc = "done" =>
         /\ out[Len(out)].type = "plan_complete"
         /\ HasFields(out[Len(out)], {"status"})
         /\ out[Len(out)].status = "completed"
    /\ mode \in {"parallel", "async"} =>
         \A p \in 1..Len(out) :
           /\ out[p].type = "session_complete" =>
                HasFields(out[p], {"index", "file", "name", "results"})
           /\ out[p].type = "session_error" =>
                HasFields(out[p], {"index", "file", "error"})

-----------------------------------------------------------------------------
\* ---- the delay of a step -----------------------------------------------
\* the effect entry just before entry j is the completed wait of ms
WaitedBefore(g, j, ms) ==
  j > 1 /\ g.effects[j - 1] = [kind |-> "sleep", ms |-> ms]

\* C14: the event after step_start of a step is delay (with duration_ms =
\* delay_before) if and only if delay_before > 0, every delay event comes
\* directly after a step_start, a step with delay_before > 0 is dispatched
\* only after its delay event was yielded and the wait of delay_before ms
\* was completed, and a step with delay_before = 0 is dispatched with no
\* wait before it.
C14_DelayBeforeDispatch ==
  \A s \in DOMAIN gen :
    LET g   == gen[s]
        seq == session[s].sequence
    IN  mode = "session" =>
          /\ \A j \in 1..Len(g.ev) :
               /\ (g.ev[j].type = "step_start" /\ j < Len(g.ev)) =>
                    /\ g.ev[j + 1].type = "delay" <=> seq[g.ev[j].step].delay_before > 0
                    /\ g.ev[j + 1].type = "delay" =>
                         g.ev[j + 1].duration_ms = seq[g.ev[j].step].delay_before
               /\ g.ev[j].type = "delay" => j > 1 /\ g.ev[j - 1].type = "step_start"
          /\ \A j \in 1..Len(g.effects) :
               /\ g.effects[j].kind = "dispatch" =>
                    LET d == seq[g.effects[j].step].delay_before
                    IN  IF d > 0 THEN WaitedBefore(g, j, d)
                        ELSE j > 1 => g.effects[j - 1].kind # "sleep"
               /\ g.effects[j].kind = "sleep" =>
                    /\ g.effects[j].ms > 0
                    /\ j < Len(g.effects) /\ g.effects[j + 1].kind = "dispatch"
          /\ g.pc \in {"step_start", "delay"} =>
               \A j \in DispatchEntries(g) : g.effects[j].step < g.step
          /\ Cardinality({j \in 1..Len(g.effects) : g.effects[j].kind = "sleep"})
               = Cardinality(EventsOfType(g.ev, "delay"))
                   - (IF g.pc = "delay" THEN 1 ELSE 0)

\* a step without delay and then a step with a delay of 250 ms were
\* dispatched
C14_Witness ==
  /\ mode = "session"
  /\ Len(session[1].sequence) = 2
  /\ session[1].sequence[1].delay_before = 0
  /\ session[1].sequence[2].delay_before = 250
  /\ Cardinality(DispatchEntries(gen[1])) = 2

-----------------------------------------------------------------------------
\* ---- the summary of parallel mode --------------------------------------
\* the outcome the summary holds for a completion event
OutcomeOf(e) ==
  IF e.type = "session_complete"
  THEN [status |-> "success", results |-> e.results]
  ELSE [status |-> "error", error |-> e.error]

\* C15: in parallel mode plan_complete is the last event, emitted when
\* every submitted session has finished and has had its completion event;
\* its summary has exactly the keys 1..N, each written once (with the one
\* completion event of that index): status success and the results of
\* session_complete, or status error and the error of session_error.  Until
\* then the summary holds exactly the indices reported so far.
C15_ParallelSummary ==
  mode = "parallel" =>
    /\ DOMAIN results = {i \in 1..N : CompletionsOf(i) # {}}
    /\ \A i \in DOMAIN results : \A q \in CompletionsOf(i) : results[i] = OutcomeOf(out[q])
    /\ \A p \in 1..Len(out) :
         out[p].type = "plan_complete" =>
           /\ p = Len(out)
           /\ Settled = 1..N
           /\ out[p].status = "completed"
           /\ DOMAIN out[p].summary = 1..N
           /\ \A i \in 1..N :
                /\ Cardinality(CompletionsOf(i)) = 1
                /\ \A q \in CompletionsOf(i) :
                     q < p /\ out[p].summary[i] = OutcomeOf(out[q])

\* the summary of a completed plan of three sessions holds a success and an
\* error
C15_Witness ==
  /\ mode = "parallel" /\ N = 3 /\ ppc = "done"
  /\ out[Len(out)].type = "plan_complete"
  /\ \E i, j \in 1..N :
       /\ out[Len(out)].summary[i].status = "success"
       /\ out[Len(out)].summary[j].status = "error"

-----------------------------------------------------------------------------
\* ---- the delivery of completion events in parallel mode ----------------
\* C16: in parallel mode the session_complete or session_error event of
\* index i is emitted only after the worker of session i has finished (its
\* call returned or raised).  That it is emitted while other sessions are
\* still executing, and before the event of a lower index that finishes
\* later, is the state of C16_Witness.
C16_ReportedAfterFinished ==
  mode = "parallel" =>
    \A p \in 1..Len(out) :
      IsCompletion(out[p]) =>
        /\ fut[out[p].index] \in {"done", "failed"}
        /\ GenFinished(gen[out[p].index])
        /\ \E q \in 1..Len(finished) : finished[q] = out[p].index

\* session 2 finished first and its event was emitted while session 1 was
\* still executing and had no event yet
C16_Witness ==
  /\ mode = "parallel" /\ N = 3
  /\ finished = <<2>>
  /\ fut[1] = "running"
  /\ Len(CompletionEvents) = 1
  /\ CompletionEvents[1].index = 2

-----------------------------------------------------------------------------
\* ---- the client instances of the session executions --------------------
\* the instances execution i has constructed, and those it has called
ClientsConstructed(i) ==
  {gen[i].effects[j].client :
     j \in {k \in 1..Len(gen[i].effects) :
              gen[i].effects[k].kind = "construct" /\ gen[i].effects[k].ok}}

ClientsUsed(i) == {gen[i].effects[j].client : j \in CallEntries(gen[i])}

\* C17: in parallel and async mode every session execution constructs at
\* most one client instance and calls no other instance than the one it
\* constructed, and no instance is constructed or called by two different
\* session executions (each of which runs on one worker thread), in any
\* interleaving.
C17_OwnClientInstance ==
  mode \in {"parallel", "async"} =>
    \A i \in 1..N :
      LET made == ClientsConstructed(i)
          used == ClientsUsed(i)
      IN  /\ Cardinality(made) <= 1
          /\ used \subseteq made
          /\ NoClient \notin used
          /\ \A j \in (i + 1)..N :
               \A c \in made \cup used :
                 c \notin ClientsConstructed(j) /\ c \notin ClientsUsed(j)

\* two sessions execute at the same time and each has called its client
C17_Witness ==
  /\ mode \in {"parallel", "async"}
  /\ \E i, j \in 1..N :
       /\ i # j
       /\ fut[i] = "running" /\ fut[j] = "running"
       /\ ClientsUsed(i) # {} /\ ClientsUsed(j) # {}

-----------------------------------------------------------------------------
\* ---- progress without the consumer -------------------------------------
\* the steps the engine takes on its own threads, inside or between the
\* pulls of the consumer: every other action is the consumer resuming
\* run_session or run_plan with next()
EngineStep ==
  \/ ConcLoadSubmit \/ ConcAbort
  \/ \E i \in 1..N : WorkerStart(i)
  \/ \E i \in 1..N : WorkerResume(i)
  \/ ppc = "submit" /\ (ParCollect \/ ParComplete)
  \/ AsyncGather
  \/ ppc = "gathered" /\ AsyncEmit

\* the steps of the session of g have been executed to their end
StepsAtEnd(g) == g.pc \in {"session_end", "session_end_failed", "done", "raised"}

AllFilesLoad == \A i \in 1..N : ~LoadRaises(i)

\* C18: once run_session or run_plan has been called, the engine goes on
\* by itself: as long as a session has steps that are not executed to their
\* end, a step of the engine is possible that is no pull of the consumer.
C18_ProgressWithoutConsumer ==
  (AllFilesLoad /\ \E i \in DOMAIN gen : ~StepsAtEnd(gen[i])) => ENABLED EngineStep

-----------------------------------------------------------------------------
\* ---- termination of run_plan -------------------------------------------
\* run_plan in any of the three modes
NextPlan == NextSequential \/ NextConcurrent

\* the thread that calls run_plan and pulls its events: it keeps pulling,
\* and the code it runs inside a pull goes on
CallerStep ==
  \/ NextSequential
  \/ ConcStart \/ ConcEnter \/ ConcLoadSubmit \/ ConcAbort
  \/ ParCollect \/ ParComplete \/ AsyncGather \/ AsyncEmit

\* the pool thread that runs the call of index i: it is scheduled, and
\* the client operations it calls return or raise
WorkerThread(i) == i \in 1..N /\ (WorkerStart(i) \/ WorkerResume(i))

SpecPlanFair ==
  /\ InitPlan({"sequential", "parallel", "async"}, {MaxWorkers})
  /\ [][NextPlan]_vars
  /\ WF_vars(CallerStep)
  /\ \A i \in 1..MaxSessions : WF_vars(WorkerThread(i))

\* session i ended by itself: it returned with its natural stream, or
\* raised because its own client could not be constructed
NaturalEnd(i) ==
  \/ gen[i].pc = "done" /\ gen[i].ev = NaturalStream(i)
  \/ gen[i].pc = "raised" /\ ClientInitFailed(gen[i])

\* run_plan returned after plan_complete as its last event, and every
\* session ran to its natural completion or failure
PlanEnded ==
  /\ ppc = "done"
  /\ out # <<>> /\ out[Len(out)].type = "plan_complete"
  /\ \A p \in 1..(Len(out) - 1) : out[p].type # "plan_complete"
  /\ \A i \in 1..N : NaturalEnd(i)

\* C19: when every session file loads, the consumer keeps pulling, the
\* client operations return or raise and the workers are scheduled fairly,
\* run_plan in each of the three modes eventually returns with
\* plan_complete as its final event, and every session has run to its own
\* natural completion or failure.
C19_EndsInPlanComplete == AllFilesLoad => <>PlanEnded

\* a plan of three sessions, one of them failing in a step and one at the
\* construction of its client, ended with plan_complete
C19_Witness ==
  /\ AllFilesLoad /\ N = 3 /\ PlanEnded
  /\ \E i, j \in 1..N : FaultStep(gen[i]) > 0 /\ gen[j].pc = "raised"

-----------------------------------------------------------------------------
\* ---- the session files of a loaded plan --------------------------------
RECURSIVE Collapse(_, _)
\* the components of the file the operating system reaches along parts,
\* starting at the directory with the components at: "." stays, ".."
\* goes up (the root is its own parent)
Collapse(at, parts) ==
  IF parts = <<>> THEN at
  ELSE LET x == Head(parts)
       IN  IF x = "." THEN Collapse(at, Tail(parts))
           ELSE IF x = ".."
           THEN Collapse(IF at = <<>> THEN at ELSE SubSeq(at, 1, Len(at) - 1), Tail(parts))
           ELSE Collapse(Append(at, x), Tail(parts))

\* the file a path names for a process whose working directory has the
\* components dir
FileAt(dir, q) == IF q.abs THEN Collapse(<<>>, q.parts) ELSE Collapse(dir, q.parts)

\* the directory of the plan document
DocumentDir == FileAt(cwd.parts, Parent(plan_file))

\* C20: load_plan yields one session file per entry of the document, in the
\* order of the document, and each names the file the entry names from the
\* directory of the plan document (an absolute entry names itself); for an
\* absolute plan_file the result is absolute, so the same for every working
\* directory: /a/b/plan.yaml listing s1.yaml yields /a/b/s1.yaml.
C20_ResolvedAgainstPlanDir ==
  (mode = "load_plan" /\ ppc = "loaded") =>
    /\ Len(session_files) = Len(data)
    /\ \A i \in 1..Len(data) :
         /\ FileAt(cwd.parts, session_files[i]) = FileAt(DocumentDir, data[i])
         /\ plan_file.abs => session_files[i].abs
    /\ (plan_file = Raw(TRUE, <<"a", "b", "plan.yaml">>)
          /\ data = <<Raw(FALSE, <<"s1.yaml">>)>>) =>
         session_files = <<Raw(TRUE, <<"a", "b", "s1.yaml">>)>>

\* the plan /a/b/plan.yaml listing sub/s2.yaml and s1.yaml was loaded by a
\* process whose working directory is /x
C20_Witness ==
  /\ mode = "load_plan" /\ ppc = "loaded"
  /\ cwd = Raw(TRUE, <<"x">>)
  /\ plan_file = Raw(TRUE, <<"a", "b", "plan.yaml">>)
  /\ data = <<Raw(FALSE, <<"sub", "s2.yaml">>), Raw(FALSE, <<"s1.yaml">>)>>
  /\ session_files = <<Raw(TRUE, <<"a", "b", "sub", "s2.yaml">>),
                       Raw(TRUE, <<"a", "b", "s1.yaml">>)>>

-----------------------------------------------------------------------------
\* ---- the records given to the engine -----------------------------------
IsExternal(x) == x.kind \in {"construct", "call"}

\* the answers the environment gave to the external calls of g, in order
Replies(g) ==
  LET ext == SelectSeq(g.effects, IsExternal)
  IN  [j \in 1..Len(ext) |-> ext[j].ok]

\* no step of the engine changes the plan, a loaded Session or the engine's
\* max_workers
RecordsUnchanged ==
  /\ session_files' = session_files
  /\ mode' = mode
  /\ max_workers' = max_workers
  /\ files' = files
  /\ \A i \in DOMAIN session : Loaded(i) => session'[i] = session[i]

\* two calls of run_session with equal Sessions and equal client replies
\* have yielded equal event sequences so far
SameCallSameEvents ==
  \A i \in DOMAIN gen : \A j \in DOMAIN gen :
    (i < j /\ Loaded(i) /\ session[i] = session[j]
       /\ Replies(gen[i]) = Replies(gen[j]) /\ gen[i].pc = gen[j].pc) =>
      gen[i].ev = gen[j].ev

-----------------------------------------------------------------------------
\* ---- unknown commands --------------------------------------------------
\* the commands the Step model accepts that _execute_step does not dispatch
Undispatched == RadiusCommand \ {"auth", "start", "alive", "stop"}

\* C22: a step whose command the Step model accepts but that is none of
\* auth, start, alive, stop (that is: reauth) is an unknown-command fault:
\* its dispatch raises without invoking a client operation, the events of
\* the step are step_start (delay when delay_before > 0) and step_failure
\* with the 'Unknown command' error, session_end{failed} follows, and
\* nothing comes after.
C22_UnknownCommandFault ==
  /\ Undispatched = {"reauth"}
  /\ \A s \in DOMAIN gen :
       LET g   == gen[s]
           seq == session[s].sequence
       IN  mode = "session" =>
             \A j \in DispatchEntries(g) :
               LET k == g.effects[j].step
               IN  seq[k].command \in Undispatched =>
                     /\ g.effects[j].raised
                     /\ j = Len(g.effects)
                     /\ \A c \in CallEntries(g) : c < j
                     /\ Cardinality(CallEntries(g)) = k - 1
                     /\ g.pc \in {"step_failure", "session_end_failed", "done"}
                     /\ LET f == IF g.pc = "step_failure" THEN Len(g.ev) ELSE Len(g.ev) - 1
                        IN  /\ g.ev[f] = [type |-> "step_failure", step |-> k,
                                          command |-> seq[k].command,
                                          error |-> <<"Unknown command", seq[k].command>>]
                            /\ g.ev[IF seq[k].delay_before > 0 THEN f - 2 ELSE f - 1]
                                 = [type |-> "step_start", step |-> k, total |-> Len(seq),
                                    command |-> seq[k].command]
                            /\ g.pc # "step_failure" =>
                                 g.ev[Len(g.ev)] = [type |-> "session_end", status |-> "failed"]

\* auth succeeded, then a delayed reauth step ended the session
C22_Witness ==
  /\ mode = "session" /\ gen[1].pc = "done"
  /\ Len(session[1].sequence) = 2
  /\ session[1].sequence[1].command = "auth"
  /\ session[1].sequence[2].command = "reauth"
  /\ session[1].sequence[2].delay_before > 0
  /\ FaultStep(gen[1]) = 2

-----------------------------------------------------------------------------
\* ---- loading and submitting in parallel mode ---------------------------
\* C23: in parallel mode every file of the plan has been loaded before a
\* session is submitted: when a session has started executing a step every
\* file is loaded, and when a load fails no session has run.
C23_LoadAllBeforeSubmit ==
  mode = "parallel" =>
    /\ (\E i \in 1..N : DispatchEntries(gen[i]) # {}) => \A j \in 1..N : Loaded(j)
    /\ ppc \in {"abort", "raised"} => \A i \in 1..N : gen[i].pc = "new" /\ fut[i] = "none"

-----------------------------------------------------------------------------
\* ---- async mode against parallel mode ----------------------------------
\* C24: with every file loadable, the completion events of async mode are
\* the events parallel mode emits for the same sessions with the same
\* client behaviour (ParEvent: same kind, same results record), in
\* ascending index order.
C24_AsyncSameAsParallel ==
  (mode = "async" /\ AllFilesLoad) =>
    /\ \A p \in 1..Len(out) : IsCompletion(out[p]) => out[p] = ParEvent(out[p].index)
    /\ PlanCompleted => CompletionEvents = [i \in 1..N |-> ParEvent(i)]

-----------------------------------------------------------------------------
\* ---- the record of the per-session helper ------------------------------
IsStepOutcome(e) == e.type \in {"step_success", "step_failure"}

\* the steps entry the record holds for a step_success or step_failure event
EntryOf(e) ==
  IF e.type = "step_success"
  THEN [step |-> e.step, command |-> e.command, response_time_ms |-> e.response_time_ms,
        status |-> "success"]
  ELSE [step |-> e.step, command |-> e.command, error |-> e.error, status |-> "failure"]

\* C25: the per-session helper consumes every event of run_session; its
\* record is {session_name, index, file, steps}, steps holding one entry per
\* step_success or step_failure event, in event order, with the fields of
\* EntryOf; the step numbers are 1, 2, ...; a failure entry is the last
\* entry; and the record is returned only when run_session has returned.
C25_CollectedRecord ==
  \A i \in 1..N :
    fut[i] \in {"running", "done"} =>
      LET oc == SelectSeq(gen[i].ev, IsStepOutcome)
          st == collected[i].steps
      IN  /\ DOMAIN collected[i] = {"session_name", "index", "file", "steps"}
          /\ collected[i].session_name = session[i].name
          /\ collected[i].index = i
          /\ collected[i].file = PathOf(i)
          /\ Len(st) = Len(oc)
          /\ \A k \in 1..Len(st) :
               /\ st[k] = EntryOf(oc[k])
               /\ st[k].step = k
               /\ st[k].status = "failure" => k = Len(st)
          /\ fut[i] = "done" => gen[i].pc = "done"

\* the helper returned a record of a success entry and a failure entry
C25_Witness ==
  \E i \in 1..N :
    /\ fut[i] = "done"
    /\ Len(collected[i].steps) = 2
    /\ collected[i].steps[1].status = "success"
    /\ collected[i].steps[2].status = "failure"

-----------------------------------------------------------------------------
\* ---- the client operation of a step ------------------------------------
\* the operation and the arguments the claim gives for a command
ClaimedOp(c) == IF c = "auth" THEN "authenticate" ELSE c

ClaimedArgs(c, config, avps) ==
  IF c = "auth" THEN <<config.username, config.password, avps>>
  ELSE <<config.username, avps>>

\* C26: the dispatch of a step whose command is auth, start, alive or stop
\* invokes one client operation, chosen by the command alone: authenticate
\* with username, password and the avps of the step for auth, the
\* like-named operation with username and avps (no password) for the
\* others; every client operation invoked belongs to one dispatch, and a
\* step that is dispatched successfully has invoked exactly one.
C26_DispatchByCommand ==
  \A s \in DOMAIN gen :
    LET g   == gen[s]
        seq == session[s].sequence
        cfg == session[s].config
    IN  mode = "session" =>
          /\ \A j \in DispatchEntries(g) :
               LET st == seq[g.effects[j].step]
               IN  IF st.command \in {"auth", "start", "alive", "stop"}
                   THEN /\ j < Len(g.effects)
                        /\ g.effects[j + 1].kind = "call"
                        /\ g.effects[j + 1].op = ClaimedOp(st.command)
                        /\ g.effects[j + 1].args = ClaimedArgs(st.command, cfg, st.avps)
                        /\ g.effects[j + 1].client = g.client
                        /\ g.effects[j].raised = ~g.effects[j + 1].ok
                        /\ j + 2 <= Len(g.effects) => g.effects[j + 2].kind # "call"
                   ELSE /\ g.effects[j].raised
                        /\ j < Len(g.effects) => g.effects[j + 1].kind # "call"
          /\ \A j \in CallEntries(g) : j > 1 /\ g.effects[j - 1].kind = "dispatch"
          /\ Cardinality(CallEntries(g)) >= Cardinality(EventsOfType(g.ev, "step_success"))
          /\ Cardinality({j \in CallEntries(g) : g.effects[j].ok})
               = Cardinality(EventsOfType(g.ev, "step_success"))

\* an auth step and a stop step were both dispatched successfully
C26_Witness ==
  /\ mode = "session" /\ gen[1].pc = "done"
  /\ Len(session[1].sequence) = 2
  /\ session[1].sequence[1].command = "auth"
  /\ session[1].sequence[2].command = "stop"
  /\ Cardinality(EventsOfType(gen[1].ev, "step_success")) = 2

-----------------------------------------------------------------------------
\* ---- step failures in parallel and async mode --------------------------
\* C27: in parallel and async mode a session that a step failure stopped
\* is reported with session_complete whose results end with the failed
\* step (status failure); session_error is emitted only for a session whose
\* helper raised, which is a client-initialization failure; and in
\* parallel mode the summary of plan_complete records the session stopped
\* by a step failure with status success.
C27_StepFailureIsComplete ==
  mode \in {"parallel", "async"} =>
    \A p \in 1..Len(out) :
      /\ IsCompletion(out[p]) =>
           LET i == out[p].index
               k == FaultStep(gen[i])
           IN  /\ k > 0 =>
                    /\ out[p].type = "session_complete"
                    /\ Len(out[p].results.steps) = k
                    /\ out[p].results.steps[k].status = "failure"
                    /\ out[p].results.steps[k].step = k
               /\ out[p].type = "session_error" =>
                    /\ gen[i].pc = "raised" /\ fut[i] = "failed"
                    /\ ClientInitFailed(gen[i])
                    /\ k = 0
      /\ (mode = "parallel" /\ out[p].type = "plan_complete") =>
           \A i \in 1..N :
             FaultStep(gen[i]) > 0 =>
               /\ out[p].summary[i].status = "success"
               /\ out[p].summary[i].results.steps[FaultStep(gen[i])].status = "failure"

\* a parallel plan completed with a session stopped by the failure of its
\* second step and a session whose client could not be constructed
C27_Witness ==
  /\ mode = "parallel" /\ ppc = "done"
  /\ \E i, j \in 1..N :
       /\ FaultStep(gen[i]) = 2 /\ results[i].status = "success"
       /\ fut[j] = "failed" /\ results[j].status = "error"

-----------------------------------------------------------------------------
\* ---- the terminal event of a session in sequential mode ----------------
\* e ends the session of index i: its tagged session_end, or session_error
IsTerminalOf(e, i) ==
  \/ e.type = "session_end" /\ "session_index" \in DOMAIN e /\ e.session_index = i
  \/ e.type = "session_error" /\ e.index = i

TerminalsOf(i) == {p \in 1..Len(out) : IsTerminalOf(out[p], i)}

\* C28: in sequential mode every index has at most one terminal event, a
\* tagged session_end or a session_error, which is the last event of the
\* index; once the plan has moved on (or completed) it has exactly one.
\* When the client initialization of a loaded session fails, the events of
\* the index are session_file_start, session_loaded, the tagged
\* session_start and session_error: no session_end and no step event.
C28_OneTerminalEvent ==
  mode = "sequential" =>
    /\ \A i \in 1..N :
         LET T == TerminalsOf(i)
         IN  /\ Cardinality(T) <= 1
             /\ T # {} => HasFileStart(i) /\ \A p \in T : p = SegmentEnd(i)
             /\ (HasFileStart(i) /\ SegmentClosed(i)) => Cardinality(T) = 1
             /\ (HasFileStart(i) /\ SegmentClosed(i) /\ ClientInitFailed(gen[i])) =>
                  Segment(i) =
                    <<[type |-> "session_file_start", index |-> i, file |-> PathOf(i)],
                      [type |-> "session_loaded", session_name |-> session[i].name],
                      [type |-> "session_start", name |-> session[i].name,
                       session_index |-> i, session_file |-> PathOf(i)],
                      [type |-> "session_error", index |-> i, file |-> PathOf(i),
                       error |-> "Failed to initialize RADIUS client"]>>
    /\ PlanCompleted => \A i \in 1..N : Cardinality(TerminalsOf(i)) = 1

\* a completed plan of three files: one did not load, one failed at the
\* client initialization, one ran to its session_end
C28_Witness ==
  /\ mode = "sequential" /\ ppc = "done" /\ N = 3
  /\ \E i, j, k \in 1..N :
       /\ LoadRaises(i)
       /\ ClientInitFailed(gen[j])
       /\ gen[k].pc = "done" /\ Len(session[k].sequence) = 2

-----------------------------------------------------------------------------
\* ---- the plan-level stream of parallel and async mode ------------------
PlanLevelTypes == {"plan_start", "session_complete", "session_error", "plan_complete"}

\* C29: in parallel and async mode every event of run_plan is plan_start,
\* session_complete, session_error or plan_complete; no event of a session
\* (session_file_start, session_loaded, session_start, step_start, delay,
\* step_success, step_failure, session_end) is in the stream, and the
\* outcome of a step is found only in the results of session_complete.
C29_NoSessionLevelEvents ==
  mode \in {"parallel", "async"} =>
    \A p \in 1..Len(out) :
      /\ out[p].type \in PlanLevelTypes
      /\ "step" \notin DOMAIN out[p]
      /\ "session_index" \notin DOMAIN out[p]
      /\ out[p].type = "session_complete" =>
           out[p].results.steps = collected[out[p].index].steps

\* three sessions of a plan ran, two steps were executed in one of them,
\* and the stream is plan_start, three completion events, plan_complete
C29_Witness ==
  /\ mode \in {"parallel", "async"} /\ ppc = "done" /\ N = 3
  /\ Len(out) = 5
  /\ \E i \in 1..N : fut[i] = "done" /\ Len(collected[i].steps) = 2

=============================================================================
